---- MODULE Spec2Model ----
(***************************************************************************)
(* Clip extraction pipeline of HSUAIClip: CreateClipEngine.run_clipsengine *)
(* (planner, encoder profile memo, per-job retry loop, final merge) and    *)
(* UtilsProgress (hardware probes, transcode monitor, clip command).       *)
(***************************************************************************)
EXTENDS Integers, Sequences, FiniteSets, TLC

VARIABLES
    pc,                   \* position of the process: idle / args / loop / resolve / create / transcoding / returned
    runs,                 \* run_clipsengine invocations started in this process
    all_clips,            \* clips_data of the current invocation
    fs,                   \* output directory: name -> size in bytes
    tasks_to_run,         \* pending tasks of the current invocation
    existing_files,       \* cache hits of the current invocation
    newly_created_files,  \* outputs produced by the current invocation
    ti,                   \* position of the task loop in tasks_to_run (1-based)
    attempt,              \* loop variable of the retry loop
    stream_urls,          \* value returned by the last get_stream_urls
    ffmpeg_args,          \* local ffmpeg_args of the current invocation
    engine_video_info,    \* CreateClipEngine.video_info (constructor argument)
    video_info,           \* Downloader.video_info of the current invocation
    fetches,              \* network resolutions performed by the current Downloader
    cached_args,          \* UtilsProgress._cached_ffmpeg_clip_args
    probe_log,            \* hardware probes executed in this process, in order
    encoder_calls,        \* executions of _get_video_encoder_args in this process
    status,               \* per clip index: status of its job in the current invocation
    resolves,             \* per clip index: get_stream_urls calls in the current invocation
    launches,             \* per clip index: transcoder launches in the current invocation
    history,              \* per clip index: outcome of each attempt in the current invocation
    logs,                 \* warning/error log entries of the current invocation
    result,               \* list returned by the current invocation
    probe_outcome,        \* exit of each backend's test encode on this host, when observed
    mon,                  \* state of one transcode monitor run
    running,              \* transcoder processes started by the clip loop and not yet waited for
    exits,                \* per clip index: return codes of its transcoders in the current invocation
    setup_info,           \* video_info of the downloader that run_project creates first
    setup_fetches         \* network extractions made by that downloader

vars == <<pc, runs, all_clips, fs, tasks_to_run, existing_files, newly_created_files,
          ti, attempt, stream_urls, ffmpeg_args, engine_video_info, video_info,
          fetches, cached_args, probe_log, encoder_calls, status, resolves,
          launches, history, logs, result, probe_outcome, mon, running, exits,
          setup_info, setup_fetches>>

None == "None"
NoInfo == [gen |-> 0, kind |-> "None"]     \* video_info / stream_urls is None
NoPath == <<>>                             \* a Path-valued variable is None
NoArgs == <<>>                             \* an argument list variable is None
NoTime == -1                               \* a timestamp that is missing or not a number

----------------------------------------------------------------------------
(* Bounds of the model *)

MaxClips == 2
MaxRuns == 2
MaxOrderClips == 11
MaxLines == 4

(* Program constants *)

max_retries == 2
MIN_SIZE == 1024
TITLE_BUDGET == 30
TAIL_LINES == 20

----------------------------------------------------------------------------
(* Strings are sequences of one-character strings; Code gives the code point
   order that Python's str comparison uses. *)

Chars == <<" ", "!", "-", ".", "0", "1", "2", "3", "4", "5", "6", "7", "8", "9",
           "_", "a", "b", "c", "i", "k", "l", "m", "p", "v", "w", "e", "C", "M", "n", "u">>

Code(c) ==
    CASE c = " " -> 32 [] c = "!" -> 33 [] c = "-" -> 45 [] c = "." -> 46
      [] c = "0" -> 48 [] c = "1" -> 49 [] c = "2" -> 50 [] c = "3" -> 51
      [] c = "4" -> 52 [] c = "5" -> 53 [] c = "6" -> 54 [] c = "7" -> 55
      [] c = "8" -> 56 [] c = "9" -> 57 [] c = "_" -> 95
      [] c = "a" -> 97 [] c = "b" -> 98 [] c = "c" -> 99 [] c = "e" -> 101
      [] c = "i" -> 105 [] c = "k" -> 107 [] c = "l" -> 108 [] c = "m" -> 109
      [] c = "p" -> 112 [] c = "v" -> 118 [] c = "w" -> 119
      [] c = "C" -> 67 [] c = "M" -> 77 [] c = "n" -> 110 [] c = "u" -> 117

IsAlnum(c) ==
    \/ (Code(c) >= 48 /\ Code(c) <= 57)
    \/ (Code(c) >= 65 /\ Code(c) <= 90)
    \/ (Code(c) >= 97 /\ Code(c) <= 122)

RECURSIVE StrLess(_, _)
StrLess(a, b) ==
    IF b = <<>> THEN FALSE
    ELSE IF a = <<>> THEN TRUE
    ELSE IF Code(Head(a)) # Code(Head(b)) THEN Code(Head(a)) < Code(Head(b))
    ELSE StrLess(Tail(a), Tail(b))

Digit(d) == Chars[5 + d]

RECURSIVE Str(_)
Str(n) == IF n < 10 THEN <<Digit(n)>> ELSE Str(n \div 10) \o <<Digit(n % 10)>>

RECURSIVE Filter(_)
Filter(s) ==
    IF s = <<>> THEN <<>>
    ELSE IF IsAlnum(Head(s)) \/ Head(s) \in {" ", "_"} THEN <<Head(s)>> \o Filter(Tail(s))
    ELSE Filter(Tail(s))

RECURSIVE LStrip(_)
LStrip(s) == IF s # <<>> /\ Head(s) = " " THEN LStrip(Tail(s)) ELSE s

RECURSIVE RStrip(_)
RStrip(s) == IF s # <<>> /\ s[Len(s)] = " " THEN RStrip(SubSeq(s, 1, Len(s) - 1)) ELSE s

Strip(s) == RStrip(LStrip(s))

SafeTitle(title) ==
    LET stripped == Strip(Filter(title))
    IN  IF Len(stripped) > TITLE_BUDGET THEN SubSeq(stripped, 1, TITLE_BUDGET) ELSE stripped

(* the base filename without the clip index *)
BaseFilename_NoIndex(index, title) == <<"c", "l", "i", "p", " ", "-">> \o SafeTitle(title)

(* f"clip {index+1}-{safe_title}": engine.py line 67 *)
BaseFilename(index, title) == <<"c", "l", "i", "p", " ">> \o Str(index + 1) \o <<"-">> \o SafeTitle(title)

EXT_MKV == <<".", "m", "k", "v">>
EXT_MP4 == <<".", "m", "p", "4">>
EXT_WEBM == <<".", "w", "e", "b", "m">>
(* the accepted extensions without the canonical output extension *)
Extensions_NoMkv == <<EXT_MP4, EXT_WEBM>>

Extensions == <<EXT_MKV, EXT_MP4, EXT_WEBM>>

----------------------------------------------------------------------------
(* Output directory and planner: engine.py lines 54-92 *)

Exists(dir, name) == name \in DOMAIN dir

(* the size test with >= in place of > *)
CacheValid_AtLeast(dir, name) == Exists(dir, name) /\ dir[name] >= MIN_SIZE

CacheValid(dir, name) == Exists(dir, name) /\ dir[name] > MIN_SIZE

(* A directory entry of size OS_ERROR is one the process cannot examine:
   raw_path.exists() or raw_path.stat() raises OSError for it. *)
OS_ERROR == -1

ProbeRaises(dir, name) == Exists(dir, name) /\ dir[name] = OS_ERROR

RawPath(index, title, e) == BaseFilename(index, title) \o Extensions[e]

FoundExisting(dir, index, title) ==
    IF \E e \in 1..Len(Extensions) : CacheValid(dir, RawPath(index, title, e))
    THEN RawPath(index, title,
                 CHOOSE e \in 1..Len(Extensions) :
                     /\ CacheValid(dir, RawPath(index, title, e))
                     /\ \A d \in 1..(e - 1) : ~CacheValid(dir, RawPath(index, title, d)))
    ELSE NoPath

ExpectedFilepath(index, title) == BaseFilename(index, title) \o EXT_MKV

Task(clips, index) ==
    [clip_info |-> clips[index + 1],
     output_path |-> ExpectedFilepath(index, clips[index + 1].title),
     display_index |-> index + 1,
     total_clips |-> Len(clips)]

(* the planner with a task for every clip, cached or not *)
PlanTasks_NoSkip(dir, clips, index) == [k \in 1..Len(clips) |-> Task(clips, k - 1)]

RECURSIVE PlanTasks(_, _, _)
PlanTasks(dir, clips, index) ==
    IF index >= Len(clips) THEN <<>>
    ELSE IF FoundExisting(dir, index, clips[index + 1].title) # NoPath
         THEN PlanTasks(dir, clips, index + 1)
         ELSE <<Task(clips, index)>> \o PlanTasks(dir, clips, index + 1)

(* the planner listing an output path for every clip, found or not *)
RECURSIVE PlanExisting_KeepPending(_, _, _)
PlanExisting_KeepPending(dir, clips, index) ==
    IF index >= Len(clips) THEN <<>>
    ELSE IF FoundExisting(dir, index, clips[index + 1].title) # NoPath
         THEN <<FoundExisting(dir, index, clips[index + 1].title)>> \o PlanExisting_KeepPending(dir, clips, index + 1)
         ELSE <<ExpectedFilepath(index, clips[index + 1].title)>> \o PlanExisting_KeepPending(dir, clips, index + 1)

RECURSIVE PlanExisting(_, _, _)
PlanExisting(dir, clips, index) ==
    IF index >= Len(clips) THEN <<>>
    ELSE IF FoundExisting(dir, index, clips[index + 1].title) # NoPath
         THEN <<FoundExisting(dir, index, clips[index + 1].title)>> \o PlanExisting(dir, clips, index + 1)
         ELSE PlanExisting(dir, clips, index + 1)

(* The probe loop of lines 71-75 has no exception handler: the planner raises
   when it reaches, for some clip, an entry it cannot examine before it found
   a valid file for that clip. *)
PlanRaises(dir, clips) ==
    \E i \in 1..Len(clips), e \in 1..Len(Extensions) :
        /\ ProbeRaises(dir, RawPath(i - 1, clips[i].title, e))
        /\ \A d \in 1..(e - 1) : ~CacheValid(dir, RawPath(i - 1, clips[i].title, d))

(* sorted(files, key=lambda p: p.name): stable insertion by string comparison *)
RECURSIVE Insert(_, _)
Insert(sorted, x) ==
    IF sorted = <<>> THEN <<x>>
    ELSE IF StrLess(x, Head(sorted)) THEN <<x>> \o sorted
    ELSE <<Head(sorted)>> \o Insert(Tail(sorted), x)

RECURSIVE SortedByName(_)
SortedByName(files) ==
    IF files = <<>> THEN <<>>
    ELSE Insert(SortedByName(SubSeq(files, 1, Len(files) - 1)), files[Len(files)])

----------------------------------------------------------------------------
(* Encoder profile: utils.py lines 69-177 *)

Backends == <<"h264_nvenc", "h264_qsv", "h264_amf", "h264_videotoolbox">>

ProbeOutcomes == {"zero", "nonzero", "notfound"}

VideoArgs(codec) ==
    CASE codec = "h264_nvenc" -> <<"-c:v", "h264_nvenc", "-preset", "p4", "-cq", "23", "-rc", "vbr", "-pix_fmt", "yuv420p">>
      [] codec = "h264_qsv" -> <<"-c:v", "h264_qsv", "-global_quality", "23", "-preset", "veryfast", "-pix_fmt", "nv12">>
      [] codec = "h264_amf" -> <<"-c:v", "h264_amf", "-quality", "2", "-pix_fmt", "yuv420p">>
      [] codec = "h264_videotoolbox" -> <<"-c:v", "h264_videotoolbox", "-b:v", "4M", "-pix_fmt", "yuv420p">>
      [] codec = "libx264" -> <<"-c:v", "libx264", "-preset", "ultrafast", "-pix_fmt", "yuv420p">>

(* ProbeFrom with check=True omitted: a non-zero exit of the test encode is
   taken for success *)
RECURSIVE ProbeFrom_NoCheck(_, _)
ProbeFrom_NoCheck(k, outcome) ==
    IF k > Len(Backends) THEN [args |-> VideoArgs("libx264"), probed |-> <<>>]
    ELSE IF outcome[k] \in {"zero", "nonzero"} THEN [args |-> VideoArgs(Backends[k]), probed |-> <<Backends[k]>>]
    ELSE LET rest == ProbeFrom_NoCheck(k + 1, outcome)
         IN  [args |-> rest.args, probed |-> <<Backends[k]>> \o rest.probed]

(* The try blocks of _get_video_encoder_args from backend k on: each probe is
   subprocess.run(check=True); CalledProcessError and FileNotFoundError fall
   through to the next block, a zero exit returns. *)
RECURSIVE ProbeFrom(_, _)
ProbeFrom(k, outcome) ==
    IF k > Len(Backends) THEN [args |-> VideoArgs("libx264"), probed |-> <<>>]
    ELSE IF outcome[k] = "zero" THEN [args |-> VideoArgs(Backends[k]), probed |-> <<Backends[k]>>]
    ELSE LET rest == ProbeFrom(k + 1, outcome)
         IN  [args |-> rest.args, probed |-> <<Backends[k]>> \o rest.probed]

GetVideoEncoderArgs(outcome) == ProbeFrom(1, outcome)

AAC_AUDIO_ARGS == <<"-c:a", "aac", "-ar", "44100", "-b:a", "192k">>

ClipCreationArgs(video_args) ==
    <<"-r", "30", "-vsync", "cfr">> \o video_args \o AAC_AUDIO_ARGS
        \o <<"-avoid_negative_ts", "make_zero", "-fflags", "+genpts+igndts", "-map_metadata", "0", "-threads", "0">>

----------------------------------------------------------------------------
(* Diagnostic lines of the transcoder.  A line is a record [k, v]:
   k = "time" with v the elapsed time in hundredths of a second,
   k = "dur" with v the announced duration in hundredths,
   k = "403" a line containing '403 Forbidden', k = "other" anything else. *)

TimeLine(cs) == [k |-> "time", v |-> cs]
DurLine(cs) == [k |-> "dur", v |-> cs]
ForbiddenLine == [k |-> "403", v |-> 0]
OtherLine == [k |-> "other", v |-> 0]

(* the buffer as a plain list: append without maxlen *)
DequeAppend_Unbounded(buf, line) == buf \o <<line>>

(* deque([], maxlen=20).append(line) *)
DequeAppend(buf, line) ==
    IF Len(buf) >= TAIL_LINES THEN Tail(buf) \o <<line>> ELSE buf \o <<line>>

(* the buffer keeping the first TAIL_LINES lines in place of the last *)
ReadAll_KeepFirst(buf, lines) ==
    IF Len(lines) <= TAIL_LINES THEN lines ELSE SubSeq(lines, 1, TAIL_LINES)

RECURSIVE ReadAll(_, _)
ReadAll(buf, lines) ==
    IF lines = <<>> THEN buf ELSE ReadAll(DequeAppend(buf, Head(lines)), Tail(lines))

(* "403 Forbidden" in (e.stderr or "") *)
HasExpiryMarker(stderr) == \E i \in 1..Len(stderr) : stderr[i].k = "403"

----------------------------------------------------------------------------
(* Transcode monitor: utils.py lines 15-26 and 179-213.  Times are in
   hundredths of a second; a percent is a fraction <<numerator, denominator>>
   with a positive denominator. *)

RLess(a, b) == a[1] * b[2] < b[1] * a[2]

RLeq(a, b) == a[1] * b[2] <= b[1] * a[2]

(* percent - last < 1.0 *)
AdvanceBelowOne(percent, prev) == percent[1] * prev[2] - prev[1] * percent[2] < percent[2] * prev[2]

(* Percent without the clamp min(100, ...) *)
Percent_NoClamp(current_time, total) ==
    IF total > 0 THEN <<current_time * 100, total>> ELSE <<0, 1>>

(* min(100, (current_time / total) * 100) if total > 0 else 0: utils.py line 204 *)
Percent(current_time, total) ==
    IF total > 0
    THEN IF current_time >= total THEN <<100, 1>> ELSE <<current_time * 100, total>>
    ELSE <<0, 1>>

(* min(100, max(0, (elapsed_sec / duration_sec) * 100)) with duration_sec =
   total_duration if total_duration > 0 else 1.0: CLIPPER/utils.py lines 40-51 *)
LegacyPercent(elapsed, total_duration) ==
    LET duration == IF total_duration > 0 THEN total_duration ELSE 100
    IN  IF elapsed >= duration THEN <<100, 1>>
        ELSE IF elapsed <= 0 THEN <<0, 1>>
        ELSE <<elapsed * 100, duration>>

InitMon == [stderr_output |-> <<>>, hint |-> 0, total |-> 0, last_printed |-> <<-1, 1>>,
            emitted |-> <<>>, percents |-> <<>>, legacy |-> <<>>, nread |-> 0,
            returncode |-> 0, error_log |-> <<>>, read |-> <<>>]

(* _print_progress: the sample is dropped when all four conditions of
   lines 21-22 hold; throttled is current_time - _last_update_time < 0.1 *)
PrintProgress(m, percent, throttled) ==
    IF /\ AdvanceBelowOne(percent, m.last_printed)
       /\ RLess(percent, <<100, 1>>)
       /\ throttled
       /\ m.last_printed # <<-1, 1>>
    THEN m
    ELSE [m EXCEPT !.last_printed = percent, !.emitted = Append(@, percent)]

(* one iteration of `for line in process.stderr`: utils.py lines 191-205 *)
MonitorLine(m, line, throttled) ==
    LET total == IF m.total <= 0 /\ line.k = "dur" THEN line.v ELSE m.total
        m1 == [m EXCEPT !.stderr_output = DequeAppend(@, line), !.total = total, !.nread = @ + 1,
                        !.read = Append(@, line)]
    IN  IF line.k = "time"
        THEN PrintProgress([m1 EXCEPT !.percents = Append(@, Percent(line.v, total)),
                                      !.legacy = Append(@, LegacyPercent(line.v, m.hint))],
                           Percent(line.v, total), throttled)
        ELSE m1

----------------------------------------------------------------------------
(* Stream resolution (Downloader.get_stream_urls).  A descriptor is
   [gen, kind]: gen numbers the network resolution that produced it, kind is
   "separate" (video + audio URLs), "muxed" (one URL) or "nourl". *)

FetchOutcomes == {"fail", "separate", "muxed", "nourl"}

Usable(info) == info # NoInfo /\ info.kind # "nourl"

Descriptor(gen, kind) == [gen |-> gen, kind |-> kind]

(* resolve: a usable cached descriptor is preferred and returned without a
   network resolution; otherwise a fresh resolution with outcome o either
   fails (ResolutionError, nothing cached) or caches and returns descriptor
   number gen.  A descriptor without a URL yields no stream URLs. *)
Resolve(info, gen, o) ==
    IF Usable(info)
    THEN [video_info |-> info, urls |-> info, raised |-> None, fetched |-> FALSE]
    ELSE IF o = "fail"
    THEN [video_info |-> info, urls |-> NoInfo, raised |-> "ResolutionError", fetched |-> TRUE]
    ELSE [video_info |-> Descriptor(gen, o),
          urls |-> IF o = "nourl" THEN NoInfo ELSE Descriptor(gen, o),
          raised |-> None, fetched |-> TRUE]

----------------------------------------------------------------------------
(* Transcode run: utils.py lines 179-222 and 267-306 *)

ClipValid(clip) == clip.start_time # NoTime /\ clip.end_time # NoTime

(* Constants for cutting a clip, in hundredths of a second: utils.py lines 66-67 *)
CLIP_END_PADDING_SECONDS == 15
SEEK_BUFFER_SECONDS == 500

(* f"{x:.6f}" of a time of cs hundredths of a second *)
Fmt6(cs) ==
    LET a == IF cs < 0 THEN -cs ELSE cs
    IN  (IF cs < 0 THEN "-" ELSE "") \o ToString(a \div 100) \o "."
            \o ToString((a % 100) \div 10) \o ToString(a % 10) \o "0000"

(* str(path) *)
RECURSIVE PathStr(_)
PathStr(path) == IF path = <<>> THEN "" ELSE Head(path) \o PathStr(Tail(path))

(* video_url, audio_url = stream_urls: one URL per resolution and stream; a
   muxed descriptor has no audio URL *)
VideoUrl(urls) == "video_url_" \o ToString(urls.gen)

AudioUrl(urls) == IF urls.kind = "separate" THEN "audio_url_" \o ToString(urls.gen) ELSE None

(* the duration without the end padding *)
ClipDuration_NoPadding(clip) == clip.end_time - clip.start_time

(* duration = (end - start) + CLIP_END_PADDING_SECONDS: utils.py line 274 *)
ClipDuration(clip) == (clip.end_time - clip.start_time) + CLIP_END_PADDING_SECONDS

(* the coarse seek without the floor at zero *)
FastSeekTime_NoFloor(start) == start - SEEK_BUFFER_SECONDS

(* max(0, start - SEEK_BUFFER_SECONDS): utils.py line 283 *)
FastSeekTime(start) == IF start - SEEK_BUFFER_SECONDS > 0 THEN start - SEEK_BUFFER_SECONDS ELSE 0

(* SEEK_BUFFER_SECONDS if start > SEEK_BUFFER_SECONDS else start: utils.py line 284 *)
(* the accurate seek as the whole buffer, whatever the start *)
AccurateSeekOffset_Const(start) == SEEK_BUFFER_SECONDS

AccurateSeekOffset(start) == IF start > SEEK_BUFFER_SECONDS THEN SEEK_BUFFER_SECONDS ELSE start

(* the mapping tokens with the test on audio_url of line 296 dropped *)
MapTokens_Always(urls) == <<"-map", "0:v:0", "-map", "1:a:0">>

(* if audio_url: cmd.extend(['-map', '0:v:0', '-map', '1:a:0']): utils.py lines 296-297 *)
MapTokens(urls) == IF AudioUrl(urls) # None THEN <<"-map", "0:v:0", "-map", "1:a:0">> ELSE <<>>

(* cmd of create_clip_from_stream: utils.py lines 286-299 *)
ClipCommand(urls, task, args) ==
    LET start == task.clip_info.start_time
        fast == Fmt6(FastSeekTime(start))
    IN  <<"ffmpeg", "-nostats", "-ss", fast, "-i", VideoUrl(urls)>>
            \o (IF AudioUrl(urls) # None THEN <<"-ss", fast, "-i", AudioUrl(urls)>> ELSE <<>>)
            \o <<"-ss", Fmt6(AccurateSeekOffset(start)), "-t", Fmt6(ClipDuration(task.clip_info))>>
            \o MapTokens(urls)
            \o args
            \o <<"-y", PathStr(task.output_path)>>

(* execute: the command without '-stats' tokens, utils.py line 221 *)
Execute(cmd) == SelectSeq(cmd, LAMBDA arg : arg # "-stats")

(* subprocess.Popen(cmd, ...) for one attempt of a job, with the
   total_duration handed to the monitor; stderr is the sequence of diagnostic
   lines this transcoder writes before it exits *)
Process(idx, att, cmd, total_duration, lines) ==
    [job |-> idx, attempt |-> att, cmd |-> Execute(cmd), total_duration |-> total_duration,
     stderr |-> lines]

(* process.wait() left out: the process is never reaped *)
Wait_Skipped(procs, idx) == procs

(* process.wait(): utils.py line 207 *)
Wait(procs, idx) == {p \in procs : p.job # idx}

(* _execute_with_stderr_parse without the return code test of line 208 *)
ExecuteWithStderrParse_NoCheck(launch_ok, lines, rc) ==
    IF ~launch_ok
    THEN [raised |-> "FileNotFoundError", stderr |-> <<>>, logged |-> {}]
    ELSE [raised |-> None, stderr |-> <<>>, logged |-> {}]

(* _execute_with_stderr_parse: Popen, read every line, wait, raise on a
   non-zero return code with the retained tail as stderr *)
ExecuteWithStderrParse(launch_ok, lines, rc) ==
    IF ~launch_ok
    THEN [raised |-> "FileNotFoundError", stderr |-> <<>>, logged |-> {}]
    ELSE IF rc # 0
         THEN [raised |-> "CalledProcessError", stderr |-> ReadAll(<<>>, lines), logged |-> {"utils:210"}]
         ELSE [raised |-> None, stderr |-> <<>>, logged |-> {}]

(* create_clip_from_stream: the value it returns or the exception that leaves
   it, the log sites it passes, and whether it started a transcoder.
   dir is the output directory as the transcoder left it. *)
CreateClipFromStream(urls, task, dir, launch_ok, lines, rc) ==
    IF ~ClipValid(task.clip_info)
    THEN [raised |-> "ValueError", stderr |-> <<>>, value |-> NoPath, logged |-> {},
          launched |-> FALSE, outcome |-> "invalid_clip"]
    ELSE IF urls = NoInfo
    THEN [raised |-> None, stderr |-> <<>>, value |-> NoPath, logged |-> {"utils:277"},
          launched |-> FALSE, outcome |-> "no_url"]
    ELSE LET e == ExecuteWithStderrParse(launch_ok, lines, rc)
         IN  IF e.raised # None
             THEN [raised |-> None, stderr |-> e.stderr, value |-> NoPath,
                   logged |-> e.logged \cup {"utils:305"}, launched |-> launch_ok,
                   outcome |-> IF e.raised = "FileNotFoundError" THEN "launch_error"
                               ELSE IF HasExpiryMarker(e.stderr) THEN "expiry" ELSE "nonzero"]
             ELSE IF CacheValid(dir, task.output_path)
                  THEN [raised |-> None, stderr |-> <<>>, value |-> task.output_path, logged |-> {},
                        launched |-> TRUE, outcome |-> "done"]
                  ELSE [raised |-> None, stderr |-> <<>>, value |-> NoPath, logged |-> {},
                        launched |-> TRUE, outcome |-> "missing_output"]

(* EngineReaction clearing the cached descriptor in every handler *)
EngineReaction_ClearOnAny(r, att) ==
    IF r.raised = None
    THEN [next |-> "break", clear |-> FALSE, logged |-> {}]
    ELSE IF r.raised = "CalledProcessError"
         THEN IF HasExpiryMarker(r.stderr) /\ att < max_retries - 1
              THEN [next |-> "continue", clear |-> TRUE, logged |-> {"engine:132"}]
              ELSE [next |-> "break", clear |-> TRUE, logged |-> {"engine:138"}]
         ELSE [next |-> "break", clear |-> TRUE, logged |-> {"engine:142"}]

(* EngineReaction with the expiry test dropped: every exception is retried
   while attempts remain *)
EngineReaction_RetryAny(r, att) ==
    IF r.raised = None
    THEN [next |-> "break", clear |-> FALSE, logged |-> {}]
    ELSE IF att < max_retries - 1
         THEN [next |-> "continue", clear |-> TRUE, logged |-> {"engine:132"}]
         ELSE [next |-> "break", clear |-> FALSE, logged |-> {"engine:138"}]

(* EngineReaction without the catch-all handler of lines 140-143 *)
EngineReaction_NoCatchAll(r, att) ==
    IF r.raised = None
    THEN [next |-> "break", clear |-> FALSE, logged |-> {}]
    ELSE IF r.raised = "CalledProcessError"
         THEN IF HasExpiryMarker(r.stderr) /\ att < max_retries - 1
              THEN [next |-> "continue", clear |-> TRUE, logged |-> {"engine:132"}]
              ELSE [next |-> "break", clear |-> FALSE, logged |-> {"engine:138"}]
         ELSE [next |-> "raise", clear |-> FALSE, logged |-> {}]

(* The retry loop's reaction to one attempt (engine.py lines 124-143), given
   what the body of the try raised: next = "break" leaves the retry loop,
   "continue" starts the next iteration of range(max_retries), "raise" lets
   the exception leave run_clipsengine (no handler matches); clear tells
   whether Downloader.video_info is set to None; logged are the log sites. *)
EngineReaction(r, att) ==
    IF r.raised = None
    THEN [next |-> "break", clear |-> FALSE, logged |-> {}]
    ELSE IF r.raised = "CalledProcessError"
         THEN IF HasExpiryMarker(r.stderr) /\ att < max_retries - 1
              THEN [next |-> "continue", clear |-> TRUE, logged |-> {"engine:132"}]
              ELSE [next |-> "break", clear |-> FALSE, logged |-> {"engine:138"}]
         ELSE [next |-> "break", clear |-> FALSE, logged |-> {"engine:142"}]

LogLevel(site) == IF site \in {"engine:47", "engine:78", "engine:91", "engine:132"} THEN "warning" ELSE "error"

LogEntries(idx, sites) == {<<LogLevel(site), idx, site>> : site \in sites}

----------------------------------------------------------------------------
(* Inputs the model draws from *)

ClipA == [title |-> <<"a">>, start_time |-> 6000, end_time |-> 9000]
ClipBad == [title |-> <<" ", "b", "!">>, start_time |-> NoTime, end_time |-> 9000]

ClipChoices == {ClipA, ClipBad}

ClipLists == UNION {[1..n -> ClipChoices] : n \in 0..MaxClips}

EmptyDir == <<>>

Write(dir, name, size) == [n \in DOMAIN dir \cup {name} |-> IF n = name THEN size ELSE dir[n]]

InitDirs ==
    {EmptyDir,
     Write(Write(EmptyDir, BaseFilename(0, <<"a">>) \o EXT_MKV, MIN_SIZE),
           BaseFilename(0, <<"a">>) \o EXT_WEBM, MIN_SIZE + 1)}

WrittenSizes == {MIN_SIZE, MIN_SIZE + 1}

RECURSIVE Repeat(_, _)
Repeat(line, n) == IF n = 0 THEN <<>> ELSE <<line>> \o Repeat(line, n - 1)

DiagRuns ==
    {<<>>, <<OtherLine>>, <<OtherLine, ForbiddenLine>>,
     <<ForbiddenLine>> \o Repeat(OtherLine, TAIL_LINES)}

----------------------------------------------------------------------------
(* The process *)

Init ==
    /\ pc = "idle"
    /\ runs = 0
    /\ all_clips = <<>>
    /\ fs \in InitDirs
    /\ tasks_to_run = <<>>
    /\ existing_files = <<>>
    /\ newly_created_files = <<>>
    /\ ti = 1
    /\ attempt = 0
    /\ stream_urls = NoInfo
    /\ ffmpeg_args = NoArgs
    /\ engine_video_info \in {NoInfo, Descriptor(0, "muxed")}
    /\ video_info = NoInfo
    /\ fetches = 0
    /\ cached_args = NoArgs
    /\ probe_log = <<>>
    /\ encoder_calls = 0
    /\ status = <<>>
    /\ resolves = <<>>
    /\ launches = <<>>
    /\ history = <<>>
    /\ logs = {}
    /\ result = <<>>
    /\ probe_outcome = <<>>
    /\ mon = InitMon
    /\ running = {}
    /\ exits = <<>>
    /\ setup_info = NoInfo
    /\ setup_fetches = 0

JobStatus(dir, clips, i) ==
    IF FoundExisting(dir, i - 1, clips[i].title) # NoPath THEN "Cached" ELSE "Pending"

(* run_clipsengine up to its first return or to the download logic:
   engine.py lines 41-92 *)
RunClipsEngine(clips) ==
    /\ pc \in {"idle", "returned"}
    /\ runs < MaxRuns
    /\ runs > 0 => clips = all_clips      \* a later invocation re-runs the same clip list
    /\ runs' = runs + 1
    /\ all_clips' = clips
    /\ tasks_to_run' = PlanTasks(fs, clips, 0)
    /\ existing_files' = PlanExisting(fs, clips, 0)
    /\ newly_created_files' = <<>>
    /\ status' = [i \in 1..Len(clips) |-> JobStatus(fs, clips, i)]
    /\ resolves' = [i \in 1..Len(clips) |-> 0]
    /\ launches' = [i \in 1..Len(clips) |-> 0]
    /\ history' = [i \in 1..Len(clips) |-> <<>>]
    /\ exits' = [i \in 1..Len(clips) |-> <<>>]
    /\ ti' = 1
    /\ attempt' = 0
    /\ stream_urls' = NoInfo
    /\ ffmpeg_args' = NoArgs
    /\ video_info' = NoInfo
    /\ fetches' = 0
    /\ IF clips = <<>>
       THEN /\ logs' = LogEntries(0, {"engine:47"})
            /\ result' = <<>>
            /\ pc' = "returned"
       ELSE IF PlanRaises(fs, clips)
       THEN /\ logs' = {}
            /\ result' = <<>>
            /\ pc' = "aborted"
       ELSE IF tasks_to_run' = <<>>
       THEN /\ logs' = UNION {LogEntries(i, {"engine:78"}) : i \in 1..Len(clips)} \cup LogEntries(0, {"engine:91"})
            /\ result' = SortedByName(existing_files')
            /\ pc' = "returned"
       ELSE /\ logs' = UNION {LogEntries(i, {"engine:78"}) : i \in {j \in 1..Len(clips) : status'[j] = "Cached"}}
            /\ result' = <<>>
            /\ pc' = "args"
    /\ UNCHANGED <<fs, engine_video_info, cached_args, probe_log, encoder_calls, probe_outcome, mon, running,
                   setup_info, setup_fetches>>

(* get_clip_creation_args without the memo test of lines 157-158 *)
ClipArgsCall_NoMemo(outcome) ==
    LET v == GetVideoEncoderArgs(outcome)
    IN  /\ cached_args' = ClipCreationArgs(v.args)
        /\ ffmpeg_args' = cached_args'
        /\ probe_log' = probe_log \o v.probed
        /\ encoder_calls' = encoder_calls + 1

(* UtilsProgress.get_clip_creation_args(): utils.py lines 151-177.  The value
   returned is left in ffmpeg_args. *)
ClipArgsCall(outcome) ==
    IF cached_args # NoArgs
    THEN /\ ffmpeg_args' = cached_args
         /\ UNCHANGED <<cached_args, probe_log, encoder_calls>>
    ELSE LET v == GetVideoEncoderArgs(outcome)
         IN  /\ cached_args' = ClipCreationArgs(v.args)
             /\ ffmpeg_args' = cached_args'
             /\ probe_log' = probe_log \o v.probed
             /\ encoder_calls' = encoder_calls + 1

(* get_clip_creation_args and the construction of the Downloader:
   engine.py lines 96-104 *)
GetClipCreationArgs(outcome) ==
    /\ pc = "args"
    /\ ClipArgsCall(outcome)
    /\ video_info' = engine_video_info
    /\ newly_created_files' = <<>>
    /\ ti' = 1
    /\ pc' = "loop"
    /\ UNCHANGED <<runs, all_clips, fs, tasks_to_run, existing_files, attempt, stream_urls,
                   engine_video_info, fetches, status, resolves, launches, history, logs,
                   result, probe_outcome, mon, running, exits,
                   setup_info, setup_fetches>>

(* for task in tasks_to_run: entry of the retry loop, engine.py lines 106-116 *)
BeginTask ==
    /\ pc = "loop"
    /\ ti <= Len(tasks_to_run)
    /\ attempt' = 0
    /\ status' = [status EXCEPT ![tasks_to_run[ti].display_index] = "Running"]
    /\ pc' = "resolve"
    /\ UNCHANGED <<runs, all_clips, fs, tasks_to_run, existing_files, newly_created_files, ti,
                   stream_urls, ffmpeg_args, engine_video_info, video_info, fetches,
                   cached_args, probe_log, encoder_calls, resolves, launches, history, logs,
                   result, probe_outcome, mon, running, exits,
                   setup_info, setup_fetches>>

(* the loop over the tasks never seen as finished after the last task *)
TasksExhausted_OffByOne == ti > Len(tasks_to_run) + 1

(* `for task in tasks_to_run` has no task left: engine.py line 106 *)
TasksExhausted == ti > Len(tasks_to_run)

(* the final merge: engine.py lines 145-148 *)
Return ==
    /\ pc = "loop"
    /\ TasksExhausted
    /\ result' = SortedByName(existing_files \o newly_created_files)
    /\ pc' = "returned"
    /\ UNCHANGED <<runs, all_clips, fs, tasks_to_run, existing_files, newly_created_files, ti,
                   attempt, stream_urls, ffmpeg_args, engine_video_info, video_info, fetches,
                   cached_args, probe_log, encoder_calls, status, resolves, launches, history,
                   logs, probe_outcome, mon, running, exits,
                   setup_info, setup_fetches>>

(* the retry loop as an unbounded loop: an attempt that produced nothing is
   always followed by another *)
LoopStep_RetryForever(idx, e, produced) ==
    IF produced
    THEN /\ status' = [status EXCEPT ![idx] = "Done"]
         /\ ti' = ti + 1
         /\ pc' = "loop"
         /\ UNCHANGED attempt
    ELSE /\ attempt' = attempt + 1
         /\ pc' = "resolve"
         /\ UNCHANGED <<status, ti>>

(* the retry loop where a failed job ends the loop over the tasks *)
LoopStep_StopOnError(idx, e, produced) ==
    IF e.next = "continue" /\ attempt + 1 < max_retries
    THEN /\ attempt' = attempt + 1
         /\ pc' = "resolve"
         /\ UNCHANGED <<status, ti>>
    ELSE /\ status' = [status EXCEPT ![idx] = IF produced THEN "Done" ELSE "Failed"]
         /\ ti' = IF produced THEN ti + 1 ELSE Len(tasks_to_run) + 1
         /\ pc' = "loop"
         /\ UNCHANGED attempt

(* Where the retry loop goes after one attempt of job idx: the next iteration
   of range(max_retries), the next task, or out of run_clipsengine with the
   exception.  produced tells whether the attempt appended an output. *)
LoopStep(idx, e, produced) ==
    IF e.next = "raise"
    THEN /\ status' = [status EXCEPT ![idx] = "Failed"]
         /\ pc' = "aborted"
         /\ UNCHANGED <<attempt, ti>>
    ELSE IF e.next = "continue" /\ attempt + 1 < max_retries
    THEN /\ attempt' = attempt + 1
         /\ pc' = "resolve"
         /\ UNCHANGED <<status, ti>>
    ELSE /\ status' = [status EXCEPT ![idx] = IF produced THEN "Done" ELSE "Failed"]
         /\ ti' = ti + 1
         /\ pc' = "loop"
         /\ UNCHANGED attempt

(* get_stream_urls(title) inside the try of the retry loop: engine.py line 119,
   and lines 129-143 when it raises *)
GetStreamUrls(o) ==
    /\ pc = "resolve"
    /\ LET idx == tasks_to_run[ti].display_index
           got == Resolve(video_info, fetches + 1, o)
       IN  /\ resolves' = [resolves EXCEPT ![idx] = @ + 1]
           /\ fetches' = IF got.fetched THEN fetches + 1 ELSE fetches
           /\ IF got.raised = None
              THEN /\ video_info' = got.video_info
                   /\ stream_urls' = got.urls
                   /\ pc' = "create"
                   /\ UNCHANGED <<history, logs, status, ti, attempt>>
              ELSE LET r == [raised |-> got.raised, stderr |-> <<>>, value |-> NoPath]
                       e == EngineReaction(r, attempt)
                   IN  /\ history' = [history EXCEPT ![idx] = Append(@, "resolution_error")]
                       /\ logs' = logs \cup LogEntries(idx, e.logged)
                       /\ video_info' = IF e.clear THEN NoInfo ELSE got.video_info
                       /\ LoopStep(idx, e, FALSE)
                       /\ UNCHANGED stream_urls
    /\ UNCHANGED <<runs, all_clips, fs, tasks_to_run, existing_files, newly_created_files,
                   ffmpeg_args, engine_video_info, cached_args, probe_log,
                   encoder_calls, launches, result, probe_outcome, mon, running, exits,
                   setup_info, setup_fetches>>

(* runner.create_clip_from_stream(...) up to the start of the transcoder:
   engine.py lines 121-122, utils.py lines 267-302 and 179-189.  When no
   transcoder is started the call is over and the rest of the try statement
   (engine.py lines 124-143) follows in the same step. *)
CreateClipStart(launch_ok, lines) ==
    /\ pc = "create"
    /\ LET task == tasks_to_run[ti]
           idx == task.display_index
           r == CreateClipFromStream(stream_urls, task, fs, launch_ok, <<>>, 0)
           e == EngineReaction(r, attempt)
       IN  IF r.launched
           THEN /\ running' = running \cup {Process(idx, attempt, ClipCommand(stream_urls, task, ffmpeg_args),
                                                     ClipDuration(task.clip_info), lines)}
                /\ launches' = [launches EXCEPT ![idx] = @ + 1]
                /\ pc' = "transcoding"
                /\ UNCHANGED <<history, logs, video_info, status, ti, attempt>>
           ELSE /\ history' = [history EXCEPT ![idx] = Append(@, r.outcome)]
                /\ logs' = logs \cup LogEntries(idx, r.logged \cup e.logged)
                /\ video_info' = IF e.clear THEN NoInfo ELSE video_info
                /\ LoopStep(idx, e, FALSE)
                /\ UNCHANGED <<running, launches>>
    /\ UNCHANGED <<runs, all_clips, fs, tasks_to_run, existing_files, newly_created_files,
                   stream_urls, ffmpeg_args, engine_video_info, fetches, cached_args, probe_log,
                   encoder_calls, resolves, result, probe_outcome, mon, exits,
                   setup_info, setup_fetches>>

(* the transcoder runs to its exit: the stderr loop, process.wait() and the
   return code test (utils.py lines 191-211), the output test (line 303) and
   the rest of the try statement (engine.py lines 124-143).  The transcoder
   may leave a file of `size` bytes at the output path. *)
CreateClipFinish(rc, writes, size) ==
    /\ pc = "transcoding"
    /\ LET task == tasks_to_run[ti]
           idx == task.display_index
           lines == (CHOOSE p \in running : p.job = idx).stderr
           dir == IF writes THEN Write(fs, task.output_path, size) ELSE fs
           r == CreateClipFromStream(stream_urls, task, dir, TRUE, lines, rc)
           e == EngineReaction(r, attempt)
           produced == r.raised = None /\ r.value # NoPath
       IN  /\ fs' = dir
           /\ running' = Wait(running, idx)
           /\ exits' = [exits EXCEPT ![idx] = Append(@, rc)]
           /\ history' = [history EXCEPT ![idx] = Append(@, r.outcome)]
           /\ logs' = logs \cup LogEntries(idx, r.logged \cup e.logged)
           /\ newly_created_files' = IF produced THEN Append(newly_created_files, r.value)
                                     ELSE newly_created_files
           /\ video_info' = IF e.clear THEN NoInfo ELSE video_info
           /\ LoopStep(idx, e, produced)
    /\ UNCHANGED <<runs, all_clips, tasks_to_run, existing_files, stream_urls, ffmpeg_args,
                   engine_video_info, fetches, cached_args, probe_log, encoder_calls,
                   resolves, launches, result, probe_outcome, mon,
                   setup_info, setup_fetches>>

Next ==
    \/ \E clips \in ClipLists : RunClipsEngine(clips)
    \/ \E outcome \in [1..Len(Backends) -> ProbeOutcomes] : GetClipCreationArgs(outcome)
    \/ BeginTask
    \/ \E o \in FetchOutcomes : GetStreamUrls(o)
    \/ \E launch_ok \in BOOLEAN, lines \in DiagRuns : CreateClipStart(launch_ok, lines)
    \/ \E rc \in {0, 1}, writes \in BOOLEAN, size \in WrittenSizes : CreateClipFinish(rc, writes, size)
    \/ Return

Spec == Init /\ [][Next]_vars

----------------------------------------------------------------------------
(* Properties of the retry loop *)

Jobs == DOMAIN status

Terminal(i) == status[i] \in {"Cached", "Done", "Failed"}

ErrorLogged(i) == \E entry \in logs : entry[1] \in {"warning", "error"} /\ entry[2] = i

(* C1: a job whose every attempt ends with a non-zero transcoder exit carrying
   the '403 Forbidden' marker is attempted exactly max_retries times (stream
   resolution and the transcoder each invoked max_retries times) and then
   ends Failed. *)
C1_RetryBound ==
    \A i \in Jobs :
        (Terminal(i) /\ history[i] # <<>> /\ \A k \in 1..Len(history[i]) : history[i][k] = "expiry")
            => /\ status[i] = "Failed"
               /\ resolves[i] = max_retries
               /\ launches[i] = max_retries

(* C2: whenever a transcode attempt fails with a link-expiry error and
   attempts remain, the cached stream descriptor is cleared by that step, so
   that the next resolution for the job cannot return it. *)
C2_InvalidateOnExpiry ==
    [][\A i \in Jobs :
          (pc = "transcoding" /\ i \in DOMAIN history' /\ history'[i] = Append(history[i], "expiry")
             /\ attempt < max_retries - 1)
              => video_info' = NoInfo]_vars

(* C3: a job whose attempt fails with a non-zero exit lacking the marker, with
   a stream resolution failure or with a transcoder launch failure is attempted
   exactly once, has an error logged and ends Failed. *)
C3_NoRetryOnOtherFailure ==
    \A i \in Jobs :
        (history[i] # <<>> /\ history[i][1] \in {"nonzero", "resolution_error", "launch_error"})
            => /\ Len(history[i]) = 1
               /\ resolves[i] = 1
               /\ launches[i] <= 1
               /\ status[i] = "Failed"
               /\ \E entry \in logs : entry[1] = "error" /\ entry[2] = i

C3_Witness ==
    /\ pc = "returned"
    /\ \E i, j \in Jobs :
          /\ history[i] = <<"resolution_error">> /\ status[i] = "Failed"
          /\ history[j] = <<"nonzero">> /\ status[j] = "Failed"

(* C4: no failure of a single job aborts run_clipsengine: the invocation never
   ends with an exception, and when it returns every job that was pending has
   been attempted and is Done or Failed, the result listing every output. *)
C4_NeverAborts ==
    /\ pc # "aborted"
    /\ pc = "returned" =>
          /\ \A i \in Jobs : Terminal(i) /\ (status[i] # "Cached" => history[i] # <<>>)
          /\ Len(result) = Cardinality({i \in Jobs : status[i] \in {"Cached", "Done"}})

C4_Witness ==
    /\ pc = "returned"
    /\ \E i, j \in Jobs :
          /\ i < j
          /\ status[i] = "Failed"
          /\ history[i][1] \in {"resolution_error", "launch_error", "nonzero", "expiry", "missing_output"}
          /\ status[j] = "Done"

(* C5: when every clip of the list has a valid output file in the directory
   at planning time -- in particular when the same list is planned again after
   an invocation in which every job ended Done or Cached -- the planner yields
   no pending task and the invocation returns at once: no hardware probe, no
   stream resolution, no transcoder launch. *)
AllOutputsValid(dir, clips) ==
    \A i \in 1..Len(clips) :
        \E e \in 1..Len(Extensions) : CacheValid(dir, RawPath(i - 1, clips[i].title, e))

C5_Idempotent ==
    [][(/\ runs' = runs + 1
        /\ all_clips' # <<>>
        /\ \/ AllOutputsValid(fs, all_clips')
           \/ (pc = "returned" /\ all_clips' = all_clips
                 /\ \A i \in Jobs : status[i] \in {"Done", "Cached"}))
          => /\ tasks_to_run' = <<>>
             /\ pc' = "returned"
             /\ Len(result') = Len(all_clips')
             /\ \A i \in 1..Len(all_clips') : status'[i] = "Cached" /\ resolves'[i] = 0 /\ launches'[i] = 0
             /\ UNCHANGED <<encoder_calls, probe_log, cached_args, fs>>]_vars

C5_Witness ==
    /\ runs = 2
    /\ pc = "returned"
    /\ Len(all_clips) >= 2
    /\ tasks_to_run = <<>>
    /\ encoder_calls = 1
    /\ \A i \in Jobs : status[i] = "Cached" /\ resolves[i] = 0 /\ launches[i] = 0

(* C9: _get_video_encoder_args executes at most once in a process; while jobs
   are dispatched the profile is already memoized and is the list in use; once
   memoized, no step changes the list or runs another probe. *)
C9_SingleProfile ==
    [][/\ encoder_calls' <= 1
       /\ Len(probe_log') <= Len(Backends)
       /\ pc' \in {"loop", "resolve", "create", "transcoding"} => (cached_args' # NoArgs /\ ffmpeg_args' = cached_args')
       /\ cached_args # NoArgs => UNCHANGED <<cached_args, probe_log, encoder_calls>>]_vars

C9_Witness ==
    /\ runs = 2
    /\ pc = "create"
    /\ encoder_calls = 1
    /\ ffmpeg_args = cached_args
    /\ \E i \in Jobs : status[i] = "Cached"

(* C14: a job is reported as produced (its path returned by
   create_clip_from_stream and appended to the new outputs, the job Done) only
   if its transcoder exited with status zero and the output file exists with
   more than 1024 bytes; in every other case no output is reported for it. *)
C14_SuccessNeedsOutput ==
    \A i \in Jobs :
        LET path == ExpectedFilepath(i - 1, all_clips[i].title)
            reported == \E k \in 1..Len(newly_created_files) : newly_created_files[k] = path
        IN  /\ status[i] = "Done" <=> reported
            /\ reported =>
                  /\ exits[i] # <<>>
                  /\ exits[i][Len(exits[i])] = 0
                  /\ path \in DOMAIN fs
                  /\ fs[path] > 1024
            /\ pc = "returned" /\ ~reported /\ status[i] # "Cached" =>
                  \A k \in 1..Len(result) : result[k] # path

C14_Witness ==
    /\ pc = "returned"
    /\ \E i, j \in Jobs :
          /\ status[i] = "Done" /\ exits[i] = <<0>>
          /\ fs[ExpectedFilepath(i - 1, all_clips[i].title)] = 1025
          /\ status[j] = "Failed" /\ exits[j] = <<0>> /\ history[j] = <<"missing_output">>
          /\ ExpectedFilepath(j - 1, all_clips[j].title) \in DOMAIN fs
          /\ fs[ExpectedFilepath(j - 1, all_clips[j].title)] = 1024

(* C16: within an invocation a job's status changes only along
   Pending -> Running and Running -> Done or Failed (jobs are created Cached
   or Pending by the planner); streams are resolved and transcoders launched
   only for the Running job, never for a Cached one, and a Done or Failed job
   is never attempted again. *)
C16_StatusTransitions ==
    [][IF runs' # runs
       THEN \A i \in DOMAIN status' :
                status'[i] \in {"Cached", "Pending"} /\ resolves'[i] = 0 /\ launches'[i] = 0
       ELSE \A i \in Jobs :
                /\ \/ status'[i] = status[i]
                   \/ <<status[i], status'[i]>> \in {<<"Pending", "Running">>, <<"Running", "Done">>,
                                                     <<"Running", "Failed">>}
                /\ status[i] # "Running" =>
                      /\ resolves'[i] = resolves[i]
                      /\ launches'[i] = launches[i]
                      /\ history'[i] = history[i]
                /\ status[i] = "Cached" => resolves[i] = 0 /\ launches[i] = 0 /\ history[i] = <<>>
                /\ status[i] \in {"Cached", "Done", "Failed"} => status'[i] = status[i]]_vars

C16_Witness ==
    /\ pc = "returned"
    /\ status = <<"Cached", "Done">>
    /\ resolves = <<0, 1>>
    /\ launches = <<0, 1>>

(* C18: every job that ends Failed has a warning or error log entry emitted
   during its processing, also when the transcoder exits zero without a valid
   output file and when no stream URL is available. *)
C18_FailedIsLogged ==
    \A i \in Jobs : status[i] = "Failed" => ErrorLogged(i)

(* C19: at most one transcoder started by the clip loop is running at any
   moment, and it belongs to the job the loop is at; the first stream
   resolution or transcode of a job starts only after every earlier pending
   job has ended Done or Failed and left no running transcoder. *)
C19_Sequential ==
    /\ Cardinality(running) <= 1
    /\ \A p \in running : pc = "transcoding" /\ p.job = tasks_to_run[ti].display_index
    /\ Cardinality({i \in Jobs : status[i] = "Running"}) <= 1
    /\ \A i, j \in Jobs :
          (i < j /\ status[i] # "Cached" /\ (status[j] = "Running" \/ resolves[j] > 0 \/ launches[j] > 0))
              => /\ status[i] \in {"Done", "Failed"}
                 /\ \A p \in running : p.job # i

C19_Witness ==
    /\ pc = "transcoding"
    /\ ti = 2
    /\ status = <<"Done", "Running">>
    /\ launches = <<1, 1>>
    /\ \E p \in running : p.job = 2 /\ running = {p}

(* C21: in every reachable state the attempts made for a job -- stream
   resolutions, transcoder launches, recorded outcomes -- number at most
   max_retries = 2, and the loop variable stays below max_retries. *)
C21_AttemptsBounded ==
    /\ attempt < 2
    /\ \A i \in Jobs : resolves[i] <= 2 /\ launches[i] <= 2 /\ Len(history[i]) <= 2 /\ Len(exits[i]) <= 2

C21_Witness ==
    /\ pc = "returned"
    /\ \E i, j \in Jobs :
          /\ i # j
          /\ history[i] = <<"expiry">> /\ resolves[i] = 1 /\ launches[i] = 1
          /\ history[j] = <<"done">> /\ resolves[j] = 1 /\ launches[j] = 1

(* C23: while jobs are processed, Downloader.video_info is set to None only
   by the step that ends a transcode attempt with a link-expiry failure while
   attempts remain.  A cache hit leaves it as it is, a resolution never
   replaces a descriptor by None, and a successful job, a non-expiry failure,
   a launch failure, a missing URL or any other exception leave it unchanged. *)
C23_ClearedOnlyOnExpiry ==
    [][/\ pc \in {"create", "transcoding"} =>
             \/ video_info' = video_info
             \/ /\ video_info' = NoInfo
                /\ pc = "transcoding"
                /\ attempt < max_retries - 1
                /\ \E i \in Jobs : history'[i] = Append(history[i], "expiry")
       /\ pc = "resolve" =>
             /\ Usable(video_info) => video_info' = video_info
             /\ video_info # NoInfo => video_info' # NoInfo
       /\ pc = "loop" => video_info' = video_info]_vars

C23_Witness ==
    /\ pc = "returned"
    /\ Len(all_clips) = 2
    /\ history = <<<<"nonzero">>, <<"invalid_clip">>>>
    /\ fetches = 1
    /\ video_info = Descriptor(1, "separate")

------------------------------------------------------------(* C26: a clip whose start_time or end_time is missing or not a number is
   rejected alone: no transcoder is started for it, its job, unless its file
   was cached, ends Failed with an error logged, the exception never leaves
   run_clipsengine, and at the return every job of the batch is terminal. *)
C26_MalformedRejectedAlone ==
    /\ pc # "aborted"
    /\ \A i \in Jobs :
          ~ClipValid(all_clips[i]) =>
              /\ launches[i] = 0
              /\ status[i] # "Done"
              /\ status[i] = "Failed" => ErrorLogged(i)
              /\ \A k \in 1..Len(history[i]) : history[i][k] \in {"invalid_clip", "resolution_error"}
    /\ pc = "returned" => \A i \in Jobs : Terminal(i)

C26_Witness ==
    /\ pc = "returned"
    /\ all_clips = <<ClipBad, ClipA>>
    /\ status = <<"Failed", "Done">>
    /\ history[1] = <<"invalid_clip">>
    /\ launches = <<0, 1>>

(* The steps run_clipsengine takes by itself once it has been called, on a
   host without hardware encoders.  The interpreter runs the method's
   statements one after another, and every resolution call and every
   transcoder process is taken to terminate, so a step that stays possible is
   eventually taken; the call of run_clipsengine itself is the caller's
   choice and gets no fairness. *)
EngineStep ==
    \/ GetClipCreationArgs([k \in 1..Len(Backends) |-> "notfound"])
    \/ BeginTask
    \/ \E o \in FetchOutcomes : GetStreamUrls(o)
    \/ \E launch_ok \in BOOLEAN, lines \in {<<>>, <<ForbiddenLine>>} : CreateClipStart(launch_ok, lines)
    \/ \E rc \in {0, 1}, writes \in BOOLEAN : CreateClipFinish(rc, writes, MIN_SIZE + 1)
    \/ Return

NextFair ==
    \/ \E clips \in ClipLists : RunClipsEngine(clips)
    \/ EngineStep

FairSpec == Init /\ [][NextFair]_vars /\ WF_vars(EngineStep)

(* C28: for every finite clip list, when resolution calls and transcoder
   processes terminate, a run_clipsengine that is under way returns, with
   every job Cached, Done or Failed. *)
C28_Terminates ==
    (pc \in {"args", "loop", "resolve", "create", "transcoding"})
        ~> (pc = "returned" /\ \A i \in Jobs : Terminal(i))

C28_Witness ==
    /\ pc = "returned"
    /\ Len(all_clips) = 2
    /\ \A i \in Jobs : Terminal(i) /\ status[i] # "Cached"
    /\ \E i \in Jobs : Len(history[i]) = 1 /\ launches[i] = 1 /\ status[i] = "Failed"

(* C29: the list run_clipsengine returns holds the output path of every job
   that ended Cached or Done exactly once and no path of a job that ended
   Failed; its length is the number of cached files plus the number of newly
   created clips. *)
C29_ReturnedPaths ==
    pc = "returned" =>
        LET succeeded == {i \in Jobs : status[i] \in {"Cached", "Done"}}
            OutputOf(i) == IF status[i] = "Cached"
                           THEN FoundExisting(fs, i - 1, all_clips[i].title)
                           ELSE ExpectedFilepath(i - 1, all_clips[i].title)
            Occurrences(path) == Cardinality({k \in 1..Len(result) : result[k] = path})
        IN  /\ \A i \in Jobs : Terminal(i)
            /\ \A i \in succeeded : Occurrences(OutputOf(i)) = 1
            /\ \A i \in Jobs \ succeeded :
                  \A e \in 1..Len(Extensions) : Occurrences(RawPath(i - 1, all_clips[i].title, e)) = 0
            /\ Len(result) = Cardinality(succeeded)
            /\ Len(result) = Len(existing_files) + Len(newly_created_files)
            /\ Len(existing_files) = Cardinality({i \in Jobs : status[i] = "Cached"})
            /\ Len(newly_created_files) = Cardinality({i \in Jobs : status[i] = "Done"})

C29_Witness ==
    /\ pc = "returned"
    /\ all_clips = <<ClipA, ClipA>>
    /\ status = <<"Cached", "Done">>
    /\ Len(result) = 2
    /\ result[1] # result[2]
    /\ runs = 1

----------------
(* The encoder profile on a host with given probe outcomes: the process calls
   get_clip_creation_args, and calls it again. *)

InitProbe ==
    /\ pc = "probe"
    /\ probe_outcome \in [1..Len(Backends) -> ProbeOutcomes]
    /\ runs = 0
    /\ all_clips = <<>>
    /\ fs = EmptyDir
    /\ tasks_to_run = <<>>
    /\ existing_files = <<>>
    /\ newly_created_files = <<>>
    /\ ti = 1
    /\ attempt = 0
    /\ stream_urls = NoInfo
    /\ ffmpeg_args = NoArgs
    /\ engine_video_info = NoInfo
    /\ video_info = NoInfo
    /\ fetches = 0
    /\ cached_args = NoArgs
    /\ probe_log = <<>>
    /\ encoder_calls = 0
    /\ status = <<>>
    /\ resolves = <<>>
    /\ launches = <<>>
    /\ history = <<>>
    /\ logs = {}
    /\ result = <<>>
    /\ mon = InitMon
    /\ running = {}
    /\ exits = <<>>
    /\ setup_info = NoInfo
    /\ setup_fetches = 0

ProbeHost ==
    /\ pc \in {"probe", "probed"}
    /\ ClipArgsCall(probe_outcome)
    /\ pc' = "probed"
    /\ UNCHANGED <<runs, all_clips, fs, tasks_to_run, existing_files, newly_created_files,
                   ti, attempt, stream_urls, engine_video_info, video_info, fetches, status,
                   resolves, launches, history, logs, result, probe_outcome, mon, running, exits,
                   setup_info, setup_fetches>>

NextProbe == ProbeHost

SpecProbe == InitProbe /\ [][NextProbe]_vars

ZeroExits == {k \in 1..Len(Backends) : probe_outcome[k] = "zero"}

FirstZero == CHOOSE m \in ZeroExits : \A k \in ZeroExits : m <= k

(* C10: for every combination of probe outcomes the profile is that of the
   first backend, in the order NVENC, QSV, AMF, VideoToolbox, whose probe exits
   zero, no probe runs after it, and it is the libx264 profile after all four
   probes when none exits zero; the call always returns a profile. *)
C10_FirstWorkingBackend ==
    pc = "probed" =>
        /\ encoder_calls = 1
        /\ ffmpeg_args = cached_args
        /\ IF ZeroExits = {}
           THEN /\ cached_args = ClipCreationArgs(VideoArgs("libx264"))
                /\ probe_log = Backends
           ELSE /\ cached_args = ClipCreationArgs(VideoArgs(Backends[FirstZero]))
                /\ probe_log = SubSeq(Backends, 1, FirstZero)

C10_Witness ==
    /\ pc = "probed"
    /\ probe_outcome = <<"nonzero", "notfound", "zero", "zero">>
    /\ probe_log = <<"h264_nvenc", "h264_qsv", "h264_amf">>
    /\ cached_args = ClipCreationArgs(VideoArgs("h264_amf"))

----------------------------------------------------------------------------
(* One run of the transcode monitor on an arbitrary diagnostic stream *)

DurationHints == {-500, 0, 1000}

MonLines == {TimeLine(0), TimeLine(500), TimeLine(1500), DurLine(1000), OtherLine}

InitMonitor ==
    /\ pc = "mon_idle"
    /\ probe_outcome = <<>>
    /\ runs = 0
    /\ all_clips = <<>>
    /\ fs = EmptyDir
    /\ tasks_to_run = <<>>
    /\ existing_files = <<>>
    /\ newly_created_files = <<>>
    /\ ti = 1
    /\ attempt = 0
    /\ stream_urls = NoInfo
    /\ ffmpeg_args = NoArgs
    /\ engine_video_info = NoInfo
    /\ video_info = NoInfo
    /\ fetches = 0
    /\ cached_args = NoArgs
    /\ probe_log = <<>>
    /\ encoder_calls = 0
    /\ status = <<>>
    /\ resolves = <<>>
    /\ launches = <<>>
    /\ history = <<>>
    /\ logs = {}
    /\ result = <<>>
    /\ mon = InitMon
    /\ running = {}
    /\ exits = <<>>
    /\ setup_info = NoInfo
    /\ setup_fetches = 0

engine_vars == <<runs, all_clips, fs, tasks_to_run, existing_files, newly_created_files,
                 ti, attempt, stream_urls, ffmpeg_args, engine_video_info, video_info,
                 fetches, cached_args, probe_log, encoder_calls, status, resolves,
                 launches, history, logs, result, probe_outcome, running, exits,
                 setup_info, setup_fetches>>

(* UtilsProgress() and the start of _execute_with_stderr_parse: utils.py
   lines 44-46 and 182-189 *)
MonitorStart(total_duration) ==
    /\ pc = "mon_idle"
    /\ mon' = [InitMon EXCEPT !.hint = total_duration, !.total = total_duration]
    /\ pc' = "mon_reading"
    /\ UNCHANGED engine_vars

MonitorRead(line, throttled) ==
    /\ pc = "mon_reading"
    /\ mon.nread < MaxLines
    /\ mon' = MonitorLine(mon, line, throttled)
    /\ UNCHANGED pc
    /\ UNCHANGED engine_vars

(* end of the stream: process.wait() and the return code test, lines 207-211 *)
MonitorExit(rc) ==
    /\ pc = "mon_reading"
    /\ mon' = [mon EXCEPT !.returncode = rc,
                          !.error_log = IF rc # 0 THEN mon.stderr_output ELSE <<>>]
    /\ pc' = IF rc # 0 THEN "mon_raised" ELSE "mon_returned"
    /\ UNCHANGED engine_vars

NextMonitor ==
    \/ \E total_duration \in DurationHints : MonitorStart(total_duration)
    \/ \E line \in MonLines, throttled \in BOOLEAN : MonitorRead(line, throttled)
    \/ \E rc \in {0, 1} : MonitorExit(rc)

SpecMonitor == InitMonitor /\ [][NextMonitor]_vars

(* C7: within one transcode run the percent values emitted as progress
   samples are non-decreasing, whatever lines the transcoder writes. *)
C7_MonotoneSamples ==
    \A k \in 1..(Len(mon.emitted) - 1) : RLeq(mon.emitted[k], mon.emitted[k + 1])

(* C8: every percent computed from a 'time=' line lies within [0, 100], also
   when the elapsed time exceeds the duration and when the duration is unknown,
   zero or negative; the same holds of FFmpegUtils.run_command. *)
C8_PercentRange ==
    /\ \A k \in 1..Len(mon.percents) :
          RLeq(<<0, 1>>, mon.percents[k]) /\ RLeq(mon.percents[k], <<100, 1>>)
    /\ \A k \in 1..Len(mon.legacy) :
          RLeq(<<0, 1>>, mon.legacy[k]) /\ RLeq(mon.legacy[k], <<100, 1>>)

C8_Witness ==
    /\ mon.hint = 0
    /\ mon.stderr_output = <<TimeLine(500), DurLine(1000), TimeLine(500), TimeLine(1500)>>
    /\ mon.percents = <<<<0, 1>>, <<50000, 1000>>, <<100, 1>>>>
    /\ mon.legacy = <<<<100, 1>>, <<100, 1>>, <<100, 1>>>>

----------------------------------------------------------------------------
(* Long clip lists: the pipeline on lists of up to MaxOrderClips clips whose
   outputs are already in the directory, all or all but one. *)

OrderLists == {[i \in 1..n |-> ClipA] : n \in 1..MaxOrderClips}

RECURSIVE DirWith(_)
DirWith(indices) ==
    IF indices = {} THEN EmptyDir
    ELSE LET i == CHOOSE i \in indices : TRUE
         IN  Write(DirWith(indices \ {i}), ExpectedFilepath(i - 1, ClipA.title), MIN_SIZE + 1)

OrderDirs ==
    {DirWith(1..MaxOrderClips)} \cup {DirWith((1..MaxOrderClips) \ {p}) : p \in 1..MaxOrderClips}

InitOrder ==
    /\ pc = "idle"
    /\ fs \in OrderDirs
    /\ probe_outcome = <<>>
    /\ runs = 0
    /\ all_clips = <<>>
    /\ tasks_to_run = <<>>
    /\ existing_files = <<>>
    /\ newly_created_files = <<>>
    /\ ti = 1
    /\ attempt = 0
    /\ stream_urls = NoInfo
    /\ ffmpeg_args = NoArgs
    /\ engine_video_info = NoInfo
    /\ video_info = NoInfo
    /\ fetches = 0
    /\ cached_args = NoArgs
    /\ probe_log = <<>>
    /\ encoder_calls = 0
    /\ status = <<>>
    /\ resolves = <<>>
    /\ launches = <<>>
    /\ history = <<>>
    /\ logs = {}
    /\ result = <<>>
    /\ mon = InitMon
    /\ running = {}
    /\ exits = <<>>
    /\ setup_info = NoInfo
    /\ setup_fetches = 0

NextOrder ==
    \/ \E clips \in OrderLists : RunClipsEngine(clips)
    \/ \E outcome \in [1..Len(Backends) -> ProbeOutcomes] : GetClipCreationArgs(outcome)
    \/ BeginTask
    \/ \E o \in FetchOutcomes : GetStreamUrls(o)
    \/ \E launch_ok \in BOOLEAN, lines \in DiagRuns : CreateClipStart(launch_ok, lines)
    \/ \E rc \in {0, 1}, writes \in BOOLEAN, size \in WrittenSizes : CreateClipFinish(rc, writes, size)
    \/ Return

SpecOrder == InitOrder /\ [][NextOrder]_vars

(* the output path bound to job i: the cache hit, or the canonical path *)
OutputOf(i) ==
    IF status[i] = "Cached" THEN FoundExisting(fs, i - 1, all_clips[i].title)
    ELSE ExpectedFilepath(i - 1, all_clips[i].title)

PathIndex(path) == CHOOSE i \in Jobs : OutputOf(i) = path

(* C6: the list returned by run_clipsengine, cached outputs merged with newly
   created ones, is in ascending clip index order. *)
C6_IndexOrder ==
    pc = "returned" =>
        \A a, b \in 1..Len(result) : a < b => PathIndex(result[a]) < PathIndex(result[b])

----------------------------------------------------------------------------
(* The transcode command: the pipeline on one clip with start and end times
   on both sides of the seek buffer, with muxed and with separate streams. *)

CommandStarts == {0, 300, 500, 501, 6000}

CommandEnds == {450, 9000}

CommandLists == {<<[title |-> <<"a">>, start_time |-> s, end_time |-> e]>> : s \in CommandStarts, e \in CommandEnds}

InitCommand ==
    /\ pc = "idle"
    /\ fs = EmptyDir
    /\ engine_video_info \in {NoInfo, Descriptor(0, "muxed"), Descriptor(0, "separate")}
    /\ probe_outcome = <<>>
    /\ runs = 0
    /\ all_clips = <<>>
    /\ tasks_to_run = <<>>
    /\ existing_files = <<>>
    /\ newly_created_files = <<>>
    /\ ti = 1
    /\ attempt = 0
    /\ stream_urls = NoInfo
    /\ ffmpeg_args = NoArgs
    /\ video_info = NoInfo
    /\ fetches = 0
    /\ cached_args = NoArgs
    /\ probe_log = <<>>
    /\ encoder_calls = 0
    /\ status = <<>>
    /\ resolves = <<>>
    /\ launches = <<>>
    /\ history = <<>>
    /\ logs = {}
    /\ result = <<>>
    /\ mon = InitMon
    /\ running = {}
    /\ exits = <<>>
    /\ setup_info = NoInfo
    /\ setup_fetches = 0

NextCommand ==
    \/ \E clips \in CommandLists : RunClipsEngine(clips)
    \/ \E outcome \in [1..Len(Backends) -> ProbeOutcomes] : GetClipCreationArgs(outcome)
    \/ BeginTask
    \/ \E o \in FetchOutcomes : GetStreamUrls(o)
    \/ \E launch_ok \in BOOLEAN, lines \in DiagRuns : CreateClipStart(launch_ok, lines)
    \/ \E rc \in {0, 1}, writes \in BOOLEAN, size \in WrittenSizes : CreateClipFinish(rc, writes, size)
    \/ Return

SpecCommand == InitCommand /\ [][NextCommand]_vars

Positions(cmd, token) == {k \in 1..Len(cmd) : cmd[k] = token}

Last(set) == CHOOSE k \in set : \A j \in set : j <= k

(* C11: for every clip with start_time < end_time the transcoder is started
   with '-t' followed by (end_time - start_time) + 0.15 s, and the same value
   is the total_duration handed to the monitor. *)
C11_PaddedDuration ==
    \A p \in running :
        LET clip == all_clips[p.job]
            d == (clip.end_time - clip.start_time) + 15
        IN  clip.start_time < clip.end_time =>
                /\ p.total_duration = d
                /\ Cardinality(Positions(p.cmd, "-t")) = 1
                /\ \A k \in Positions(p.cmd, "-t") : k < Len(p.cmd) /\ p.cmd[k + 1] = Fmt6(d)

C11_Witness ==
    \E p \in running :
        /\ all_clips[p.job].start_time = 6000
        /\ all_clips[p.job].end_time = 9000
        /\ p.total_duration = 3015
        /\ \E k \in Positions(p.cmd, "-t") : p.cmd[k + 1] = "30.150000"

(* C12: in the command every input '-i' is preceded by '-ss' and
   max(0, start_time - 5 s); after the last input come '-ss',
   min(5 s, start_time), '-t' and the duration; then the encoder profile
   arguments; the output path is the last token. *)
C12_TwoStageSeek ==
    \A p \in running :
        LET clip == all_clips[p.job]
            start == clip.start_time
            coarse == IF start - 500 >= 0 THEN start - 500 ELSE 0
            accurate == IF 500 <= start THEN 500 ELSE start
            inputs == Positions(p.cmd, "-i")
        IN  /\ inputs # {}
            /\ \A k \in inputs : k > 2 /\ p.cmd[k - 2] = "-ss" /\ p.cmd[k - 1] = Fmt6(coarse)
            /\ Cardinality(Positions(p.cmd, "-ss")) = Cardinality(inputs) + 1
            /\ LET k == Last(inputs) + 2
                   n == Len(p.cmd)
               IN  /\ k + 3 <= n
                   /\ SubSeq(p.cmd, k, k + 2) = <<"-ss", Fmt6(accurate), "-t">>
                   /\ \E a \in (k + 4)..n :
                          /\ a + Len(ffmpeg_args) <= n
                          /\ SubSeq(p.cmd, a, a + Len(ffmpeg_args) - 1) = ffmpeg_args
                   /\ p.cmd[n] = PathStr(ExpectedFilepath(p.job - 1, clip.title))

C12_Witness ==
    \E p \in running :
        /\ all_clips[p.job].start_time = 6000
        /\ stream_urls.kind = "separate"
        /\ SubSeq(p.cmd, 3, 12) = <<"-ss", "55.000000", "-i", "video_url_1", "-ss", "55.000000", "-i",
                                    "audio_url_1", "-ss", "5.000000">>
        /\ p.cmd[Len(p.cmd)] = "clip 1-a.mkv"

(* C13: the command has a second input and the tokens '-map 0:v:0 -map 1:a:0'
   exactly when the resolver returned separate video and audio URLs; with one
   muxed URL it has exactly one input and no '-map' token. *)
C13_MappingIffSeparate ==
    pc = "transcoding" =>
        \A p \in running :
            LET maps == Positions(p.cmd, "-map")
            IN  IF stream_urls.kind = "separate"
                THEN /\ Cardinality(Positions(p.cmd, "-i")) = 2
                     /\ Cardinality(maps) = 2
                     /\ \E k \in maps : k + 3 <= Len(p.cmd) /\
                            SubSeq(p.cmd, k, k + 3) = <<"-map", "0:v:0", "-map", "1:a:0">>
                ELSE /\ Cardinality(Positions(p.cmd, "-i")) = 1
                     /\ maps = {}

C13_Witness ==
    /\ pc = "transcoding"
    /\ stream_urls = Descriptor(1, "separate")
    /\ \E p \in running :
          /\ Cardinality(Positions(p.cmd, "-i")) = 2
          /\ Positions(p.cmd, "-map") # {}

(* C27: for every start_time >= 0 the coarse seek and the accurate seek offset
   are both non-negative and add up to start_time, below, at and above
   SEEK_BUFFER_SECONDS, and they are the values the command carries: the
   coarse seek before the first input, the accurate seek after the last. *)
C27_SeeksAddUp ==
    \A p \in running :
        LET start == all_clips[p.job].start_time
            coarse == FastSeekTime(start)
            accurate == AccurateSeekOffset(start)
            k == Last(Positions(p.cmd, "-i")) + 3
        IN  start >= 0 =>
              /\ coarse >= 0
              /\ accurate >= 0
              /\ coarse + accurate = start
              /\ p.cmd[4] = Fmt6(coarse)
              /\ k <= Len(p.cmd)
              /\ p.cmd[k] = Fmt6(accurate)

C27_Witness ==
    \E p \in running :
        /\ all_clips[p.job].start_time = 501
        /\ p.cmd[4] = "0.010000"
        /\ \E k \in 2..Len(p.cmd) : p.cmd[k - 1] = "-ss" /\ p.cmd[k] = "5.000000" /\ p.cmd[k + 1] = "-t"

----------------------------------------------------------------------------
(* The planner: the pipeline on short clip lists with identical, empty and
   over-long titles, over directories that hold files of every size class,
   or entries that cannot be examined, at the first clip's base filename. *)

MaxPlanClips == 2

LongTitle == Repeat("a", TITLE_BUDGET + 1)

PlanTitles == {<<>>, <<"a">>, LongTitle, Repeat("a", TITLE_BUDGET) \o <<"b">>}

PlanLists ==
    UNION {[1..n -> {[title |-> t, start_time |-> 6000, end_time |-> 9000] : t \in PlanTitles}] :
              n \in 1..MaxPlanClips}

RECURSIVE DirOf(_, _)
DirOf(sizes, e) ==
    IF e > Len(Extensions) THEN EmptyDir
    ELSE IF sizes[e] = 0 THEN DirOf(sizes, e + 1)
    ELSE Write(DirOf(sizes, e + 1), RawPath(0, <<"a">>, e), sizes[e])

PlanDirs ==
    {DirOf(sizes, 1) : sizes \in [1..Len(Extensions) -> {0, MIN_SIZE, MIN_SIZE + 1}]}
        \cup {DirOf(<<OS_ERROR, 0, 0>>, 1), DirOf(<<MIN_SIZE, OS_ERROR, 0>>, 1),
              DirOf(<<MIN_SIZE + 1, OS_ERROR, 0>>, 1), DirOf(<<0, 0, OS_ERROR>>, 1)}

InitPlan ==
    /\ pc = "idle"
    /\ fs \in PlanDirs
    /\ engine_video_info = NoInfo
    /\ probe_outcome = <<>>
    /\ runs = 0
    /\ all_clips = <<>>
    /\ tasks_to_run = <<>>
    /\ existing_files = <<>>
    /\ newly_created_files = <<>>
    /\ ti = 1
    /\ attempt = 0
    /\ stream_urls = NoInfo
    /\ ffmpeg_args = NoArgs
    /\ video_info = NoInfo
    /\ fetches = 0
    /\ cached_args = NoArgs
    /\ probe_log = <<>>
    /\ encoder_calls = 0
    /\ status = <<>>
    /\ resolves = <<>>
    /\ launches = <<>>
    /\ history = <<>>
    /\ logs = {}
    /\ result = <<>>
    /\ mon = InitMon
    /\ running = {}
    /\ exits = <<>>
    /\ setup_info = NoInfo
    /\ setup_fetches = 0

NextPlan ==
    \/ \E clips \in PlanLists : RunClipsEngine(clips)
    \/ GetClipCreationArgs([k \in 1..Len(Backends) |-> "notfound"])
    \/ BeginTask
    \/ GetStreamUrls("muxed")
    \/ CreateClipStart(TRUE, <<>>)
    \/ \E rc \in {0, 1} : CreateClipFinish(rc, TRUE, MIN_SIZE + 1)
    \/ Return

SpecPlan == InitPlan /\ [][NextPlan]_vars

(* the directory is as the planner of the current invocation saw it *)
JustPlanned == pc = "args" \/ (pc = "returned" /\ all_clips # <<>> /\ tasks_to_run = <<>>)

TasksOf(i) == {k \in 1..Len(tasks_to_run) : tasks_to_run[k].display_index = i}

(* C15: every clip is classified as exactly one of Cached and Pending:
   Cached exactly when, for some extension of .mkv, .mp4, .webm, the file at
   its base filename exists with more than 1024 bytes, the job then bound to
   the first such file and to no task; otherwise Pending with one task whose
   output path is base + '.mkv'. *)
C15_Classification ==
    JustPlanned =>
        \A i \in Jobs :
            LET base == BaseFilename(i - 1, all_clips[i].title)
                exts == <<EXT_MKV, EXT_MP4, EXT_WEBM>>
                Valid(e) == (base \o exts[e]) \in DOMAIN fs /\ fs[base \o exts[e]] > 1024
                Bound(path) == \E k \in 1..Len(existing_files) : existing_files[k] = path
            IN  /\ status[i] \in {"Cached", "Pending"}
                /\ status[i] = "Cached" <=> \E e \in 1..3 : Valid(e)
                /\ status[i] = "Cached" =>
                      /\ TasksOf(i) = {}
                      /\ \A e \in 1..3 : Bound(base \o exts[e]) <=> (Valid(e) /\ \A d \in 1..(e - 1) : ~Valid(d))
                /\ status[i] = "Pending" =>
                      /\ Cardinality(TasksOf(i)) = 1
                      /\ \A k \in TasksOf(i) : tasks_to_run[k].output_path = base \o EXT_MKV
                      /\ \A e \in 1..3 : ~Bound(base \o exts[e])

C15_Witness ==
    /\ pc = "args"
    /\ Len(all_clips) = 2
    /\ fs = DirOf(<<MIN_SIZE, MIN_SIZE + 1, MIN_SIZE + 1>>, 1)
    /\ status = <<"Cached", "Pending">>
    /\ existing_files = <<RawPath(0, <<"a">>, 2)>>

(* C17: when the probe of a clip's existing file fails with a filesystem
   access error, the clip is classified Pending and the invocation goes on:
   the planner does not let the error out. *)
C17_ProbeErrorIsNotCached ==
    \A i \in 1..Len(all_clips) :
        (\E e \in 1..Len(Extensions) :
            /\ ProbeRaises(fs, RawPath(i - 1, all_clips[i].title, e))
            /\ \A d \in 1..(e - 1) : ~CacheValid(fs, RawPath(i - 1, all_clips[i].title, d)))
        => /\ pc # "aborted"
           /\ (JustPlanned => status[i] = "Pending" /\ TasksOf(i) # {})

(* C20: the output paths bound to the jobs of an invocation, cache hits and
   task output paths, are pairwise distinct, also for identical, empty and
   over-long titles; no two transcoders are given the same output file. *)
C20_DistinctPaths ==
    LET paths == existing_files \o [k \in 1..Len(tasks_to_run) |-> tasks_to_run[k].output_path]
    IN  /\ \A a, b \in 1..Len(paths) : a # b => paths[a] # paths[b]
        /\ pc \in {"args", "loop", "resolve", "create", "transcoding"} => Len(paths) = Len(all_clips)
        /\ \A p, q \in running : p.job # q.job => p.cmd[Len(p.cmd)] # q.cmd[Len(q.cmd)]

C20_Witness ==
    /\ pc = "transcoding"
    /\ Len(all_clips) = 2
    /\ all_clips[1].title = LongTitle
    /\ all_clips[2].title = Repeat("a", TITLE_BUDGET) \o <<"b">>
    /\ Len(tasks_to_run) = 2
    /\ ti = 2
    /\ tasks_to_run[1].output_path = <<"c", "l", "i", "p", " ", "1", "-">> \o Repeat("a", TITLE_BUDGET) \o EXT_MKV
    /\ tasks_to_run[2].output_path = <<"c", "l", "i", "p", " ", "2", "-">> \o Repeat("a", TITLE_BUDGET) \o EXT_MKV

----------------------------------------------------------------------------
(* Long diagnostic streams: one monitor run over up to MaxTailLines lines,
   numbered so that each line is distinct, with at most one line carrying
   the '403 Forbidden' marker. *)

MaxTailLines == 22

NumberedLine(i) == [k |-> "other", v |-> i]

TailRead(line) ==
    /\ pc = "mon_reading"
    /\ mon.nread < MaxTailLines
    /\ \/ line = NumberedLine(mon.nread + 1)
       \/ line = ForbiddenLine /\ ~HasExpiryMarker(mon.read)
    /\ mon' = MonitorLine(mon, line, FALSE)
    /\ UNCHANGED pc
    /\ UNCHANGED engine_vars

NextTail ==
    \/ MonitorStart(0)
    \/ \E line \in {NumberedLine(i) : i \in 1..MaxTailLines} \cup {ForbiddenLine} : TailRead(line)
    \/ \E rc \in {0, 1} : MonitorExit(rc)

SpecTail == InitMonitor /\ [][NextTail]_vars

(* the last min(Len(lines), n) elements of lines *)
LastLines(lines, n) ==
    IF Len(lines) <= n THEN lines ELSE SubSeq(lines, Len(lines) - n + 1, Len(lines))

(* C22: the retained diagnostic buffer never holds more than 20 lines and is
   always the most recent min(k, 20) of the k lines read, in order; on a
   non-zero exit the error carries exactly that tail. *)
C22_TailOfTwenty ==
    /\ Len(mon.stderr_output) <= 20
    /\ Len(mon.read) = mon.nread
    /\ mon.stderr_output = LastLines(mon.read, 20)
    /\ pc = "mon_raised" => mon.error_log = LastLines(mon.read, 20)

C22_Witness ==
    /\ pc = "mon_raised"
    /\ mon.nread = 22
    /\ Len(mon.error_log) = 20
    /\ mon.error_log[1] = NumberedLine(3)
    /\ mon.error_log[20] = NumberedLine(22)
    /\ mon.read[2] = ForbiddenLine

----------------------------------------------------------------------------
(* run_project: the first downloader's metadata extraction (get_folder_name,
   get_info), the clip list from manual entry or from the summary, and the
   clip pipeline on it: engine.py lines 306-347. *)

(* _get_info without the test of the cached value *)
GetInfoCall_NoCache(info, gen, o) ==
    IF o = "fail"
    THEN [video_info |-> info, value |-> NoInfo, fetched |-> TRUE]
    ELSE [video_info |-> Descriptor(gen, o), value |-> Descriptor(gen, o), fetched |-> TRUE]

(* DownloaderSetup._get_info: downloader.py lines 48-73.  o is the outcome of
   extract_info: "fail" when it raises, else the kind of the info returned. *)
GetInfoCall(info, gen, o) ==
    IF info # NoInfo
    THEN [video_info |-> info, value |-> info, fetched |-> FALSE]
    ELSE IF o = "fail"
    THEN [video_info |-> info, value |-> NoInfo, fetched |-> TRUE]
    ELSE [video_info |-> Descriptor(gen, o), value |-> Descriptor(gen, o), fetched |-> TRUE]

(* downloader.get_folder_name(): the first call of _get_info *)
GetFolderName(o) ==
    /\ pc = "setup"
    /\ LET got == GetInfoCall(setup_info, -(setup_fetches + 1), o)
       IN  /\ setup_info' = got.video_info
           /\ setup_fetches' = IF got.fetched THEN setup_fetches + 1 ELSE setup_fetches
    /\ pc' = "named"
    /\ UNCHANGED <<runs, all_clips, fs, tasks_to_run, existing_files, newly_created_files,
                   ti, attempt, stream_urls, ffmpeg_args, engine_video_info, video_info,
                   fetches, cached_args, probe_log, encoder_calls, status, resolves,
                   launches, history, logs, result, probe_outcome, mon, running, exits>>

(* video_info = downloader.get_info(), later handed to CreateClipEngine *)
GetInfo(o) ==
    /\ pc = "named"
    /\ LET got == GetInfoCall(setup_info, -(setup_fetches + 1), o)
       IN  /\ setup_info' = got.video_info
           /\ setup_fetches' = IF got.fetched THEN setup_fetches + 1 ELSE setup_fetches
           /\ engine_video_info' = got.value
    /\ pc' = "idle"
    /\ UNCHANGED <<runs, all_clips, fs, tasks_to_run, existing_files, newly_created_files,
                   ti, attempt, stream_urls, ffmpeg_args, video_info,
                   fetches, cached_args, probe_log, encoder_calls, status, resolves,
                   launches, history, logs, result, probe_outcome, mon, running, exits>>

(* A part of the manual input, between commas: a range 'start-end' of two
   numbers, a part without '-', or a part that float() rejects. *)
RangePart(start, end) == [k |-> "range", start |-> start, end |-> end]
NoDashPart == [k |-> "nodash", start |-> 0, end |-> 0]
BadPart == [k |-> "bad", start |-> 0, end |-> 0]

ManualTitle(n) == <<"M", "a", "n", "u", "a", "l", " ", "C", "l", "i", "p", " ">> \o Str(n)

(* the loop over the parts: interface.py lines 65-85 *)
RECURSIVE ManualClips(_, _)
ManualClips(parts, clips) ==
    IF parts = <<>> THEN clips
    ELSE LET part == Head(parts)
         IN  IF part.k # "range" \/ part.start >= part.end
             THEN ManualClips(Tail(parts), clips)
             ELSE ManualClips(Tail(parts),
                      Append(clips, [title |-> ManualTitle(Len(clips) + 1),
                                     start_time |-> part.start, end_time |-> part.end]))

(* get_manual_timestamps on one line of input: empty input returns None; a
   part float() rejects, or no valid range at all, asks again; otherwise the
   clips are returned: interface.py lines 55-95 *)
GetManualTimestamps(parts) ==
    IF parts = <<>> THEN [accepted |-> TRUE, clips |-> <<>>]
    ELSE IF \E i \in 1..Len(parts) : parts[i].k = "bad" THEN [accepted |-> FALSE, clips |-> <<>>]
    ELSE IF ManualClips(parts, <<>>) = <<>> THEN [accepted |-> FALSE, clips |-> <<>>]
    ELSE [accepted |-> TRUE, clips |-> ManualClips(parts, <<>>)]

(* clips_data of run_project: the manual clips, else the 'clips' of the
   summary as they are: engine.py lines 326-341 *)
ClipsData(manual_clips, summary_clips) ==
    IF manual_clips # <<>> THEN manual_clips ELSE summary_clips

ManualParts == {RangePart(6000, 9000), RangePart(9000, 6000), RangePart(6000, 6000), NoDashPart, BadPart}

ManualInputs == {<<>>} \cup UNION {[1..n -> ManualParts] : n \in 1..2}

SummaryClips ==
    {[title |-> <<"a">>, start_time |-> 6000, end_time |-> 9000],
     [title |-> <<"b">>, start_time |-> 9000, end_time |-> 6000],
     [title |-> <<"c">>, start_time |-> 6000, end_time |-> 6000]}

Summaries == {<<>>} \cup UNION {[1..n -> SummaryClips] : n \in 1..2}

(* ConsoleUI.get_manual_timestamps(), the summary and run_clipsengine(clips_data).
   The manual input is read before the metadata extraction and touches no
   state of it, so it is drawn here, where its value is first used. *)
RunProjectClips(parts, summary) ==
    /\ pc = "idle"
    /\ runs = 0
    /\ GetManualTimestamps(parts).accepted
    /\ RunClipsEngine(ClipsData(GetManualTimestamps(parts).clips, summary))

InitProject ==
    /\ pc = "setup"
    /\ fs = EmptyDir
    /\ engine_video_info = NoInfo
    /\ probe_outcome = <<>>
    /\ runs = 0
    /\ all_clips = <<>>
    /\ tasks_to_run = <<>>
    /\ existing_files = <<>>
    /\ newly_created_files = <<>>
    /\ ti = 1
    /\ attempt = 0
    /\ stream_urls = NoInfo
    /\ ffmpeg_args = NoArgs
    /\ video_info = NoInfo
    /\ fetches = 0
    /\ cached_args = NoArgs
    /\ probe_log = <<>>
    /\ encoder_calls = 0
    /\ status = <<>>
    /\ resolves = <<>>
    /\ launches = <<>>
    /\ history = <<>>
    /\ logs = {}
    /\ result = <<>>
    /\ mon = InitMon
    /\ running = {}
    /\ exits = <<>>
    /\ setup_info = NoInfo
    /\ setup_fetches = 0

NextProject ==
    \/ \E o \in FetchOutcomes : GetFolderName(o)
    \/ \E o \in FetchOutcomes : GetInfo(o)
    \/ \E parts \in ManualInputs, summary \in Summaries : RunProjectClips(parts, summary)
    \/ GetClipCreationArgs([k \in 1..Len(Backends) |-> "notfound"])
    \/ BeginTask
    \/ \E o \in FetchOutcomes : GetStreamUrls(o)
    \/ CreateClipStart(TRUE, <<>>)
    \/ \E rc \in {0, 1} : CreateClipFinish(rc, TRUE, MIN_SIZE + 1)
    \/ Return

SpecProject == InitProject /\ [][NextProject]_vars

(* C24: a call that finds a cached descriptor returns it without a network
   fetch and leaves the cache as it is -- in _get_info any cached descriptor,
   in the pipeline's resolve a usable one; with nothing cached the call
   fetches, and a fetch that fails caches nothing, so that the next call
   fetches again. *)
C24_CachedResolution ==
    [][/\ pc \in {"setup", "named"} =>
             /\ setup_info # NoInfo =>
                   UNCHANGED <<setup_info, setup_fetches>> /\ (pc = "named" => engine_video_info' = setup_info)
             /\ setup_info = NoInfo =>
                   /\ setup_fetches' = setup_fetches + 1
                   /\ setup_info' # NoInfo => setup_info'.gen = -setup_fetches'
       /\ pc = "resolve" =>
             /\ Usable(video_info) =>
                   UNCHANGED <<video_info, fetches>> /\ stream_urls' = video_info
             /\ video_info = NoInfo =>
                   /\ fetches' = fetches + 1
                   /\ video_info' # NoInfo => video_info'.gen = fetches']_vars

C24_Witness ==
    /\ setup_fetches = 2
    /\ setup_info = Descriptor(-2, "muxed")
    /\ engine_video_info = setup_info
    /\ pc = "returned"
    /\ Len(all_clips) = 2
    /\ resolves = <<1, 1>>
    /\ fetches = 0
    /\ video_info = setup_info

(* C25: every clip that the pipeline plans or transcodes has
   start_time < end_time, whether it comes from manual entry or from the
   summary. *)
C25_StartBeforeEnd ==
    /\ \A i \in 1..Len(all_clips) : all_clips[i].start_time < all_clips[i].end_time
    /\ \A p \in running : all_clips[p.job].start_time < all_clips[p.job].end_time

----------------------------------------------------------------------------
(* Transcoders whose diagnostics carry the "403 Forbidden" line, followed by
   fewer or more lines than the buffer of _execute_with_stderr_parse holds:
   utils.py lines 188-211 and engine.py lines 129-139. *)

MaxExpiryTail == 21

(* diagnostics with the marker after `before` lines and `after` lines behind it *)
ExpiryRun(before, after) == Repeat(OtherLine, before) \o <<ForbiddenLine>> \o Repeat(OtherLine, after)

ExpiryRuns == {ExpiryRun(a, b) : a \in 0..1, b \in {0} \cup ((TAIL_LINES - 1)..MaxExpiryTail)}

NextExpiry ==
    \/ \E clips \in ClipLists : RunClipsEngine(clips)
    \/ GetClipCreationArgs([k \in 1..Len(Backends) |-> "notfound"])
    \/ BeginTask
    \/ \E o \in FetchOutcomes : GetStreamUrls(o)
    \/ \E lines \in ExpiryRuns : CreateClipStart(TRUE, lines)
    \/ \E rc \in {0, 1} : CreateClipFinish(rc, TRUE, MIN_SIZE + 1)
    \/ Return

SpecExpiry == Init /\ [][NextExpiry]_vars

(* C30: when a transcoder exits, the failure counts as link expiry only if
   the exit is non-zero and the marker is among the last 20 diagnostic lines;
   a non-zero exit whose marker is followed by 20 or more lines counts as an
   ordinary failure: the job fails, the cached descriptor stays and the loop
   goes on to the next task without another attempt. *)
C30_ExpiryNeedsMarkerInTail ==
    [][pc = "transcoding" =>
          LET idx == tasks_to_run[ti].display_index
              lines == (CHOOSE p \in running : p.job = idx).stderr
              outcome == history'[idx][Len(history'[idx])]
              rc == exits'[idx][Len(exits'[idx])]
          IN  /\ outcome = "expiry" =>
                    /\ rc # 0
                    /\ \E i \in 1..Len(lines) : lines[i].k = "403" /\ Len(lines) - i < 20
              /\ (rc # 0 /\ \A i \in 1..Len(lines) : lines[i].k = "403" => Len(lines) - i >= 20) =>
                    /\ outcome = "nonzero"
                    /\ status'[idx] = "Failed"
                    /\ pc' = "loop"
                    /\ ti' = ti + 1
                    /\ video_info' = video_info]_vars

(* every diagnostic run here carries the marker, so a non-zero exit recorded
   as an ordinary failure is one whose marker had left the buffer *)
C30_Witness ==
    /\ pc = "returned"
    /\ Len(all_clips) = 1
    /\ exits[1] = <<1>>
    /\ history[1] = <<"nonzero">>
    /\ status[1] = "Failed"
    /\ launches[1] = 1
    /\ resolves[1] = 1

====
